---- MODULE Spec2Model ----
(***************************************************************************)
(* Model of app.py: the guided traversal of an "assistant_flow" decision   *)
(* tree and its transcript log.                                            *)
(*                                                                         *)
(* A Python dict is a function whose DOMAIN is the set of keys present, so *)
(* d.get(k, default) is Get(d, k, default) and `k in d` is k \in DOMAIN d. *)
(* session_state holds one dict per browser session, cache is the cache of *)
(* load_json shared by all sessions, page is what the last run of a        *)
(* session's script rendered, and last is a history variable: the last     *)
(* click, with the session dict and the page it was made on.               *)
(*                                                                         *)
(* Every user interaction is one action: a click on a widget the page      *)
(* shows, the script run that handles it (the handler fires if that run    *)
(* renders the widget again) and the st.rerun() the handler requests.      *)
(* File contents are valid JSON objects; the options of one node carry     *)
(* distinct labels (the widget key is f"{nid}_{lbl}").                     *)
(*                                                                         *)
(* now counts clock ticks and only advances (datetime.now is read from a   *)
(* clock that is never set back).  A save to the Google sheet either is    *)
(* configured and appends its rows or is not; API failures are left out.   *)
(* Spec is one session, SpecBuild one session on generated documents,      *)
(* SpecMulti and SpecIds two sessions sharing the cache.                   *)
(***************************************************************************)
EXTENDS Integers, Sequences, FiniteSets, TLC

VARIABLES session_state, cache, now, page, last

vars == <<session_state, cache, now, page, last>>

----------------------------------------------------------------------------
(* Bounds *)

MaxLog == 2        \* longest transcript explored
MaxTime == 2       \* last clock tick explored
MaxNodes == 3      \* longest generated nodes sequence

----------------------------------------------------------------------------
(* Values *)

None == "None"                       \* Python None (never a node id here)
EmptyDict == [k \in {} |-> None]     \* {}

Get(d, k, default) == IF k \in DOMAIN d THEN d[k] ELSE default

Put(d, k, v) == [x \in DOMAIN d \cup {k} |-> IF x = k THEN v ELSE d[x]]

Sessions == {"s1"}
Files == {"01_sepsis.json", "02_shock.json"}

TicksPerSecond == 2                  \* the clock is finer than the formats
IstOffset == 19800                   \* Asia/Kolkata is UTC+05:30

Second(t) == t \div TicksPerSecond

\* datetime.now(TIMEZONE).strftime("case-%Y%m%d-%H%M%S-IST")
CaseIdAt(t) == <<"case", Second(t) + IstOffset, "IST">>

\* datetime.now(TIMEZONE).isoformat(timespec="seconds")
IsoIst(t) == <<Second(t) + IstOffset, IstOffset>>

\* datetime.now(timezone.utc).isoformat(timespec="seconds")
IsoUtc(t) == <<Second(t), 0>>

\* str.strip() on a string held as a sequence of characters
IsSpace(c) == c \in {" ", "\t"}

RECURSIVE LStrip(_)
LStrip(s) == IF s # <<>> /\ IsSpace(Head(s)) THEN LStrip(Tail(s)) ELSE s

RECURSIVE RStrip(_)
RStrip(s) ==
    IF s # <<>> /\ IsSpace(s[Len(s)]) THEN RStrip(SubSeq(s, 1, Len(s) - 1)) ELSE s

Strip(s) == RStrip(LStrip(s))

\* what the user may type in the two optional text inputs of the home screen
ResidentInputs == {<<>>, <<" ", "r", " ">>}
PatientInputs == {<<"p", " ">>}

----------------------------------------------------------------------------
(* Documents a file may hold (parsed JSON) *)

\* two questions, the second one ending the path
DocE2E ==
    [assistant_flow |->
        [start |-> "a",
         nodes |-> << [id |-> "a", text |-> "Q1",
                       options |-> << [label |-> "Yes", next |-> "b"] >>],
                      [id |-> "b", text |-> "Q2", end |-> TRUE] >>]]

\* a dangling edge, an option without next, an option without label
DocDangling ==
    [assistant_flow |->
        [start |-> "x",
         nodes |-> << [id |-> "x", text |-> "X",
                       options |-> << [label |-> "go", next |-> "missing"],
                                      [label |-> "skip"],
                                      [next |-> "b"] >>],
                      [id |-> "b", end |-> FALSE] >>]]

\* duplicate ids, a node without id, an end node that lists options
DocDup ==
    [assistant_flow |->
        [start |-> "a",
         nodes |-> << [id |-> "a", text |-> "old", end |-> TRUE],
                      [text |-> "noid",
                       options |-> << [label |-> "no", next |-> "a"] >>],
                      [id |-> "a", text |-> "new",
                       options |-> << [label |-> "Yes", next |-> "b"],
                                      [label |-> "No", next |-> "a"] >>],
                      [id |-> "b", text |-> "Q2", end |-> TRUE,
                       options |-> << [label |-> "more", next |-> "a"] >>] >>]]

\* start names no node of the document
DocStartMissing ==
    [assistant_flow |->
        [start |-> "missing",
         nodes |-> << [id |-> "a", text |-> "Q1",
                       options |-> << [label |-> "Yes", next |-> "a"] >>] >>]]

\* the start node is an end node
DocStartEnd ==
    [assistant_flow |->
        [start |-> "b",
         nodes |-> << [id |-> "b", text |-> "Q2", end |-> TRUE] >>]]

DocNoKey == [title |-> "reference"]

DocEmptyFlow == [assistant_flow |-> EmptyDict]

DocNoStart ==
    [assistant_flow |->
        [nodes |-> << [id |-> "a", text |-> "Q1",
                       options |-> << [label |-> "Yes", next |-> "a"] >>] >>]]

DocEmptyStart ==
    [assistant_flow |->
        [start |-> "",
         nodes |-> << [id |-> "a", text |-> "Q1",
                       options |-> << [label |-> "Yes", next |-> "a"] >>] >>]]

DocNoIds ==
    [assistant_flow |->
        [start |-> "a",
         nodes |-> << [text |-> "Q1",
                       options |-> << [label |-> "Yes", next |-> "a"] >>] >>]]

DocNoNodes == [assistant_flow |-> [start |-> "a"]]

\* node objects for generated nodes sequences
NodePool ==
    { [id |-> "a", text |-> "first", options |-> << [label |-> "go", next |-> "b"] >>],
      [id |-> "a", text |-> "second", end |-> TRUE],
      [id |-> "b", text |-> "third", options |-> << [label |-> "up", next |-> "a"] >>],
      [text |-> "noid", options |-> << [label |-> "go", next |-> "a"] >>] }

RECURSIVE SeqsUpTo(_, _)
SeqsUpTo(S, n) ==
    IF n = 0 THEN {<<>>}
    ELSE LET shorter == SeqsUpTo(S, n - 1)
         IN  shorter \cup {Append(q, x) : q \in shorter, x \in S}

\* documents with every nodes sequence of at most MaxNodes pooled nodes
GeneratedDocs ==
    { [assistant_flow |-> [start |-> st, nodes |-> ns]] :
          st \in {"a", "b"}, ns \in SeqsUpTo(NodePool, MaxNodes) }

\* what p.read_text() + json.loads may return for a file, at any time
DiskContents(f) ==
    IF f = "01_sepsis.json"
    THEN {DocE2E, DocDangling, DocDup, DocNoKey, DocNoStart, DocNoNodes}
    ELSE {DocStartMissing, DocStartEnd, DocEmptyFlow, DocNoIds, DocEmptyStart}

----------------------------------------------------------------------------
(* Helpers of the script *)

\* truth value of a string-or-None: `not start`
Truthy(v) == v \notin {None, ""}

\* a presence test of the key in place of the truth test of its value
FlowFalsy_keyOnly(data) == "assistant_flow" \notin DOMAIN data

\* `not flow` for flow = data.get("assistant_flow"): None or {}
FlowFalsy(data) ==
    \/ "assistant_flow" \notin DOMAIN data
    \/ DOMAIN data["assistant_flow"] = {}

\* a construction that keeps the first node object of an id
RECURSIVE BuildNodes_firstWins(_, _)
BuildNodes_firstWins(ns, acc) ==
    IF ns = <<>> THEN acc
    ELSE BuildNodes_firstWins(Tail(ns),
                    IF "id" \in DOMAIN Head(ns) /\ Head(ns)["id"] \notin DOMAIN acc
                    THEN Put(acc, Head(ns)["id"], Head(ns))
                    ELSE acc)

\* {n["id"]: n for n in ... if isinstance(n, dict) and "id" in n}, entry by
\* entry in sequence order
RECURSIVE BuildNodes(_, _)
BuildNodes(ns, acc) ==
    IF ns = <<>> THEN acc
    ELSE BuildNodes(Tail(ns),
                    IF "id" \in DOMAIN Head(ns)
                    THEN Put(acc, Head(ns)["id"], Head(ns))
                    ELSE acc)

NodesOf(flow) == BuildNodes(Get(flow, "nodes", <<>>), EmptyDict)

StartOf(flow) == Get(flow, "start", None)

\* the guard without its test of start
Malformed_nodesOnly(flow) == DOMAIN NodesOf(flow) = {}

\* `not nodes or not start`
Malformed(flow) == DOMAIN NodesOf(flow) = {} \/ ~Truthy(StartOf(flow))

\* the run gets past both guards
Usable(data) == ~FlowFalsy(data) /\ ~Malformed(data["assistant_flow"])

\* a lookup that falls back to the start node for an unknown id
Lookup_fallback(flow, nid) ==
    IF nid \in DOMAIN NodesOf(flow) THEN NodesOf(flow)[nid]
    ELSE Get(NodesOf(flow), StartOf(flow), EmptyDict)

\* nodes.get(nid, {})
Lookup(flow, nid) == Get(NodesOf(flow), nid, EmptyDict)

NodeEnd(node) == Get(node, "end", FALSE)

OptionsOf(node) == Get(node, "options", <<>>)

OptLabel(opt) == Get(opt, "label", "Next")

OptNext(opt) == Get(opt, "next", None)

\* the cache of load_json: a cached file is returned as cached, any other is
\* read from disk
Readable(c, f) == IF f \in DOMAIN c THEN {c[f]} ELSE DiskContents(f)

\* go_home removing the issue_path key only
go_home_partial(ss) == [k \in DOMAIN ss \ {"issue_path"} |-> ss[k]]

go_home(ss) == EmptyDict

start_case(ss, issue_path, resident, patient_id, t) ==
    LET s1 == Put(ss, "issue_path", issue_path)
        s2 == Put(s1, "resident", Strip(resident))
        s3 == Put(s2, "patient_id", Strip(patient_id))
        s4 == Put(s3, "case_id", CaseIdAt(t))
        s5 == Put(s4, "node_id", None)
    IN  Put(s5, "log", <<>>)

\* log_step assigning a one-entry list instead of appending
log_step_overwrite(ss, node_id, node_text, action_label, next_id, t) ==
    Put(ss, "log",
        << [timestamp_ist |-> IsoIst(t),
            timestamp_utc |-> IsoUtc(t),
            node_id |-> node_id,
            node_text |-> node_text,
            choice |-> action_label,
            next_node |-> next_id] >>)

\* log_step recording the node the choice leads to as the node it was made at
log_step_post(ss, node_id, node_text, action_label, next_id, t) ==
    Put(ss, "log",
        Append(ss["log"],
               [timestamp_ist |-> IsoIst(t),
                timestamp_utc |-> IsoUtc(t),
                node_id |-> next_id,
                node_text |-> node_text,
                choice |-> action_label,
                next_node |-> next_id]))

\* log_step inserting the entry at the head of the list
log_step_prepend(ss, node_id, node_text, action_label, next_id, t) ==
    Put(ss, "log",
        << [timestamp_ist |-> IsoIst(t),
            timestamp_utc |-> IsoUtc(t),
            node_id |-> node_id,
            node_text |-> node_text,
            choice |-> action_label,
            next_node |-> next_id] >> \o ss["log"])

log_step(ss, node_id, node_text, action_label, next_id, t) ==
    Put(ss, "log",
        Append(ss["log"],
               [timestamp_ist |-> IsoIst(t),
                timestamp_utc |-> IsoUtc(t),
                node_id |-> node_id,
                node_text |-> node_text,
                choice |-> action_label,
                next_node |-> next_id]))

\* a resolution to the first node of the document instead of start
Resolve_first(ss, flow) ==
    IF "node_id" \notin DOMAIN ss \/ ss["node_id"] = None
    THEN Put(ss, "node_id", flow["nodes"][1]["id"])
    ELSE ss

\* if "node_id" not in st.session_state or ... is None: node_id = start
Resolve(ss, flow) ==
    IF "node_id" \notin DOMAIN ss \/ ss["node_id"] = None
    THEN Put(ss, "node_id", StartOf(flow))
    ELSE ss

HomePage == [view |-> "home"]

\* a guide screen that renders the option buttons of an end node too
GuidePage_allOptions(ss, flow) ==
    LET nid == ss["node_id"]
        node == Lookup(flow, nid)
    IN  [view |-> "guide",
         nid |-> nid,
         node |-> node,
         text |-> Get(node, "text", ""),
         end |-> NodeEnd(node),
         options |-> [i \in DOMAIN OptionsOf(node) |->
                         OptLabel(OptionsOf(node)[i])]]

\* the widgets and messages of the guide screen for session dict ss
GuidePage(ss, flow) ==
    LET nid == ss["node_id"]
        node == Lookup(flow, nid)
    IN  [view |-> "guide",
         nid |-> nid,
         node |-> node,
         text |-> Get(node, "text", ""),
         end |-> NodeEnd(node),
         options |-> IF NodeEnd(node) THEN <<>>
                     ELSE [i \in DOMAIN OptionsOf(node) |->
                              OptLabel(OptionsOf(node)[i])]]

\* pretty(p) for the files of the data directory: ".json" and a leading
\* "<digits>_" removed, "_" replaced by " "
pretty(p) == IF p = "01_sepsis.json" THEN "sepsis" ELSE "shock"

\* keys of meta and of a log entry, in insertion order
MetaKeys == <<"case_id", "issue", "resident", "patient_id", "log">>

EntryKeys ==
    <<"timestamp_ist", "timestamp_utc", "node_id", "node_text", "choice",
      "next_node">>

\* the fields that can hold None
Nullable == {"node_id", "next_node"}

\* meta = {"case_id": ..., "issue": pretty(issue), ..., "log": log}
ExportMeta(ss) ==
    [case_id |-> Get(ss, "case_id", ""),
     issue |-> pretty(ss["issue_path"]),
     resident |-> Get(ss, "resident", ""),
     patient_id |-> Get(ss, "patient_id", ""),
     log |-> Get(ss, "log", <<>>)]

\* a JSON scalar: None is written null, anything else as a string
JsonScalar(k, v) ==
    IF k \in Nullable /\ v = None THEN <<"null">> ELSE <<"string", v>>

\* json.dumps(meta, ...): the members of meta in insertion order, the log
\* as an array of objects
json_dumps(meta) ==
    [i \in 1..Len(MetaKeys) |->
        LET k == MetaKeys[i]
        IN  IF k = "log"
            THEN <<k, [j \in 1..Len(meta[k]) |->
                          [n \in 1..Len(EntryKeys) |->
                              <<EntryKeys[n],
                                JsonScalar(EntryKeys[n],
                                           meta[k][j][EntryKeys[n]])>>]]>>
            ELSE <<k, JsonScalar(k, meta[k])>>]

\* a CSV cell: csv.writer writes None as the empty string
CsvCell(k, v) == IF k \in Nullable /\ v = None THEN "" ELSE v

\* csv_from_rows writing the rows last to first
csv_from_rows_reversed(rows, headers) ==
    <<headers>> \o
    [j \in 1..Len(rows) |->
        [n \in 1..Len(headers) |->
            CsvCell(headers[n],
                    Get(rows[Len(rows) + 1 - j], headers[n], ""))]]

\* csv_from_rows: the header line, then one line per row with the cells in
\* header order
csv_from_rows(rows, headers) ==
    <<headers>> \o
    [j \in 1..Len(rows) |->
        [n \in 1..Len(headers) |->
            CsvCell(headers[n], Get(rows[j], headers[n], ""))]]

\* the rows save_log_to_gsheet appends to the worksheet
GsheetRows(meta) ==
    [j \in 1..Len(meta["log"]) |->
        <<Get(meta, "case_id", ""), Get(meta, "issue", ""),
          Get(meta, "resident", ""), Get(meta, "patient_id", "")>> \o
        [n \in 1..Len(EntryKeys) |-> Get(meta["log"][j], EntryKeys[n], "")]]

\* the transcript expander: the downloads exist only `if log`
WithExport(pg, ss) ==
    IF Get(ss, "log", <<>>) = <<>> THEN pg
    ELSE pg @@ [json_blob |-> json_dumps(ExportMeta(ss)),
                csv_blob |-> csv_from_rows(ss["log"], EntryKeys)]

\* a run of the script in which no widget fires: the session dict it leaves
\* and the page it renders (data is the loaded file of a session in a case)
Render(ss, data) ==
    IF "issue_path" \notin DOMAIN ss
    THEN [ss |-> ss, page |-> HomePage]
    ELSE IF FlowFalsy(data)
    THEN [ss |-> ss, page |-> [view |-> "info", json |-> data]]
    ELSE IF Malformed(data["assistant_flow"])
    THEN [ss |-> ss,
          page |-> [view |-> "warning", json |-> data["assistant_flow"]]]
    ELSE LET r == Resolve(ss, data["assistant_flow"])
         IN  [ss |-> r,
              page |-> WithExport(GuidePage(r, data["assistant_flow"]), r)]

\* the first option of the node whose button carries the clicked key
FirstWithLabel(opts, lbl) ==
    LET hits == {j \in DOMAIN opts : OptLabel(opts[j]) = lbl}
    IN  IF hits = {} THEN 0 ELSE CHOOSE j \in hits : \A k \in hits : j <= k

----------------------------------------------------------------------------
(* State machine *)

Init ==
    /\ session_state = [s \in Sessions |-> EmptyDict]
    /\ cache = EmptyDict
    /\ now = 0
    /\ page = [s \in Sessions |-> HomePage]
    /\ last = [op |-> "none"]

\* the end of a run that keeps the case state in one dict for all sessions
Finish_shared(s, r, op, arg, hit) ==
    /\ session_state' = [x \in DOMAIN session_state |-> r.ss]
    /\ page' = [page EXCEPT ![s] = r.page]
    /\ last' = [op |-> op, s |-> s, arg |-> arg, hit |-> hit,
                before |-> session_state[s], saw |-> page[s]]

\* the run ends: session s keeps dict r.ss and sees page r.page
\* (last: the widget clicked, its option index if any, whether its handler
\* fired, and the session dict and page the click was made on)
Finish(s, r, op, arg, hit) ==
    /\ session_state' = [session_state EXCEPT ![s] = r.ss]
    /\ page' = [page EXCEPT ![s] = r.page]
    /\ last' = [op |-> op, s |-> s, arg |-> arg, hit |-> hit,
                before |-> session_state[s], saw |-> page[s]]

\* time passes
Tick ==
    /\ now < MaxTime
    /\ now' = now + 1
    /\ UNCHANGED <<session_state, cache, page, last>>

\* a reload after which the entries show the text their node has in the
\* document just loaded (entries that refer to the node instead of copying)
Reload_refresh(s) ==
    LET ss == session_state[s]
    IN  /\ IF "issue_path" \in DOMAIN ss
           THEN \E data \in DiskContents(ss["issue_path"]) :
                   /\ cache' = Put(EmptyDict, ss["issue_path"], data)
                   /\ Finish(s,
                          Render(
                              IF FlowFalsy(data) THEN ss
                              ELSE Put(ss, "log",
                                       [j \in DOMAIN ss["log"] |->
                                           [ss["log"][j] EXCEPT !["node_text"] =
                                               Get(Lookup(data["assistant_flow"],
                                                          ss["log"][j]["node_id"]),
                                                   "text", "")]]),
                              data),
                          "reload", 0, TRUE)
           ELSE /\ cache' = EmptyDict
                /\ Finish(s, Render(ss, EmptyDict), "reload", 0, TRUE)
        /\ UNCHANGED now

\* "Reload files": st.cache_data.clear(); st.rerun()
Reload(s) ==
    LET ss == session_state[s]
    IN  /\ IF "issue_path" \in DOMAIN ss
           THEN \E data \in DiskContents(ss["issue_path"]) :
                   /\ cache' = Put(EmptyDict, ss["issue_path"], data)
                   /\ Finish(s, Render(ss, data), "reload", 0, TRUE)
           ELSE /\ cache' = EmptyDict
                /\ Finish(s, Render(ss, EmptyDict), "reload", 0, TRUE)
        /\ UNCHANGED now

\* "start" on the home screen: start_case(choice, resident, patient_id);
\* st.rerun()
Start(s, f, resident, patient_id) ==
    /\ page[s].view = "home"
    /\ "issue_path" \notin DOMAIN session_state[s]
    /\ LET ss == start_case(session_state[s], f, resident, patient_id, now)
       IN  \E data \in Readable(cache, f) :
              /\ cache' = Put(cache, f, data)
              /\ Finish(s, Render(ss, data), "start", 0, TRUE)
    /\ UNCHANGED now

\* "<- back": on_click=go_home runs before the script
Back(s) ==
    /\ page[s].view # "home"
    /\ Finish(s, Render(go_home(session_state[s]), EmptyDict), "back", 0, TRUE)
    /\ UNCHANGED <<cache, now>>

\* the button of option i of the page: log_step(...); node_id = nxt;
\* st.rerun().  The handler fires when this run renders a button with the
\* clicked key.
Choose(s, i) ==
    /\ page[s].view = "guide"
    /\ i \in DOMAIN page[s].options
    /\ Len(session_state[s]["log"]) < MaxLog
    /\ LET ss == session_state[s]
           f == ss["issue_path"]
           key == <<page[s].nid, page[s].options[i]>>
       IN  \E data \in Readable(cache, f) :
              /\ cache' = Put(cache, f, data)
              /\ IF ~Usable(data)
                 THEN Finish(s, Render(ss, data), "choose", i, FALSE)
                 ELSE LET flow == data["assistant_flow"]
                          r == Resolve(ss, flow)
                          nid == r["node_id"]
                          node == Lookup(flow, nid)
                          j == FirstWithLabel(OptionsOf(node), key[2])
                      IN  IF NodeEnd(node) \/ nid # key[1] \/ j = 0
                          THEN Finish(s, Render(r, data), "choose", i, FALSE)
                          ELSE LET opt == OptionsOf(node)[j]
                                   logged == log_step(r, nid,
                                                 Get(node, "text", ""),
                                                 OptLabel(opt), OptNext(opt),
                                                 now)
                               IN  Finish(s,
                                       Render(Put(logged, "node_id",
                                                  OptNext(opt)), data),
                                       "choose", i, TRUE)
    /\ UNCHANGED now

\* a restart that starts the case anew (start_case) instead of resetting it
Restart_fresh(s) ==
    /\ page[s].view = "guide"
    /\ LET ss == session_state[s]
           f == ss["issue_path"]
       IN  \E data \in Readable(cache, f) :
              /\ cache' = Put(cache, f, data)
              /\ IF ~Usable(data)
                 THEN Finish(s, Render(ss, data), "restart", 0, FALSE)
                 ELSE Finish(s,
                          Render(start_case(ss, f, <<>>, <<>>, now), data),
                          "restart", 0, TRUE)
    /\ UNCHANGED now

\* "restart case": node_id = start; log = []; st.rerun()
Restart(s) ==
    /\ page[s].view = "guide"
    /\ LET ss == session_state[s]
           f == ss["issue_path"]
       IN  \E data \in Readable(cache, f) :
              /\ cache' = Put(cache, f, data)
              /\ IF ~Usable(data)
                 THEN Finish(s, Render(ss, data), "restart", 0, FALSE)
                 ELSE LET flow == data["assistant_flow"]
                          r == Resolve(ss, flow)
                      IN  Finish(s,
                              Render(Put(Put(r, "node_id", StartOf(flow)),
                                         "log", <<>>), data),
                              "restart", 0, TRUE)
    /\ UNCHANGED now

\* "new case": go_home(); st.rerun()
NewCase(s) ==
    /\ page[s].view = "guide"
    /\ LET ss == session_state[s]
           f == ss["issue_path"]
       IN  \E data \in Readable(cache, f) :
              /\ cache' = Put(cache, f, data)
              /\ IF ~Usable(data)
                 THEN Finish(s, Render(ss, data), "new case", 0, FALSE)
                 ELSE Finish(s,
                          Render(go_home(Resolve(ss, data["assistant_flow"])),
                                 data),
                          "new case", 0, TRUE)
    /\ UNCHANGED now

\* the page of session s shows the downloads of the transcript
HasExport(pg) == pg.view = "guide" /\ "json_blob" \in DOMAIN pg

\* a download that empties the transcript it has handed over
DownloadJson_consuming(s) ==
    /\ HasExport(page[s])
    /\ LET ss == session_state[s]
           f == ss["issue_path"]
       IN  \E data \in Readable(cache, f) :
              /\ cache' = Put(cache, f, data)
              /\ Finish(s, Render(Put(ss, "log", <<>>), data),
                        "download json", page[s].json_blob, TRUE)
    /\ UNCHANGED now

\* "download transcript (json)": the browser gets the json_blob of the
\* page; the click reruns the script
DownloadJson(s) ==
    /\ HasExport(page[s])
    /\ LET ss == session_state[s]
           f == ss["issue_path"]
       IN  \E data \in Readable(cache, f) :
              /\ cache' = Put(cache, f, data)
              /\ Finish(s, Render(ss, data), "download json",
                        page[s].json_blob, TRUE)
    /\ UNCHANGED now

\* "download transcript (csv)"
DownloadCsv(s) ==
    /\ HasExport(page[s])
    /\ LET ss == session_state[s]
           f == ss["issue_path"]
       IN  \E data \in Readable(cache, f) :
              /\ cache' = Put(cache, f, data)
              /\ Finish(s, Render(ss, data), "download csv",
                        page[s].csv_blob, TRUE)
    /\ UNCHANGED now

\* "save to google sheet": save_log_to_gsheet(meta), with Google Sheets
\* configured or not (then it warns and returns False)
SaveToSheet(s, configured) ==
    /\ HasExport(page[s])
    /\ LET ss == session_state[s]
           f == ss["issue_path"]
       IN  \E data \in Readable(cache, f) :
              /\ cache' = Put(cache, f, data)
              /\ IF ~Usable(data)
                 THEN Finish(s, Render(ss, data), "save", <<>>, FALSE)
                 ELSE LET r == Resolve(ss, data["assistant_flow"])
                      IN  IF r["log"] = <<>> \/ ~configured
                          THEN Finish(s, Render(r, data), "save", <<>>, FALSE)
                          ELSE Finish(s, Render(r, data), "save",
                                      GsheetRows(ExportMeta(r)), TRUE)
    /\ UNCHANGED now

\* the options the page of session s offers
Offered(s) == IF page[s].view = "guide" THEN DOMAIN page[s].options ELSE {}

Next ==
    \/ Tick
    \/ \E s \in DOMAIN session_state : Reload(s)
    \/ \E s \in DOMAIN session_state, f \in Files, r \in ResidentInputs,
          p \in PatientInputs : Start(s, f, r, p)
    \/ \E s \in DOMAIN session_state : Back(s)
    \/ \E s \in DOMAIN session_state : \E i \in Offered(s) : Choose(s, i)
    \/ \E s \in DOMAIN session_state : Restart(s)
    \/ \E s \in DOMAIN session_state : NewCase(s)
    \/ \E s \in DOMAIN session_state : DownloadJson(s)
    \/ \E s \in DOMAIN session_state : DownloadCsv(s)
    \/ \E s \in DOMAIN session_state, c \in BOOLEAN : SaveToSheet(s, c)

Spec == Init /\ [][Next]_vars

\* the same program, a file of it having been loaded with a generated
\* document
InitBuild ==
    /\ session_state = [s \in Sessions |-> EmptyDict]
    /\ \E f \in Files, data \in GeneratedDocs : cache = Put(EmptyDict, f, data)
    /\ now = 0
    /\ page = [s \in Sessions |-> HomePage]
    /\ last = [op |-> "none"]

\* the interactions with cases on the loaded file
NextBuild ==
    \/ \E s \in DOMAIN session_state, f \in DOMAIN cache, r \in ResidentInputs,
          p \in PatientInputs : Start(s, f, r, p)
    \/ \E s \in DOMAIN session_state : Back(s)
    \/ \E s \in DOMAIN session_state : \E i \in Offered(s) : Choose(s, i)
    \/ \E s \in DOMAIN session_state : Restart(s)
    \/ \E s \in DOMAIN session_state : NewCase(s)

SpecBuild == InitBuild /\ [][NextBuild]_vars

\* the same program serving two browser sessions, each with a
\* st.session_state of its own; the st.cache_data cache is shared
SessionsMulti == {"s1", "s2"}

\* what the user of session s types into "resident name"
ResidentOf(s) == IF s = "s1" THEN <<>> ELSE <<" ", "r", " ">>

InitMulti ==
    /\ session_state = [s \in SessionsMulti |-> EmptyDict]
    /\ cache = EmptyDict
    /\ now = 0
    /\ page = [s \in SessionsMulti |-> HomePage]
    /\ last = [op |-> "none"]

\* the clicks of the two sessions on cases of the first file, interleaved
NextMulti ==
    \/ \E s \in DOMAIN session_state : Reload(s)
    \/ \E s \in DOMAIN session_state, p \in PatientInputs :
          Start(s, "01_sepsis.json", ResidentOf(s), p)
    \/ \E s \in DOMAIN session_state : Back(s)
    \/ \E s \in DOMAIN session_state : \E i \in Offered(s) : Choose(s, i)
    \/ \E s \in DOMAIN session_state : Restart(s)
    \/ \E s \in DOMAIN session_state : NewCase(s)

SpecMulti == InitMulti /\ [][NextMulti]_vars

\* the two sessions starting and abandoning cases while time passes
NextIds ==
    \/ Tick
    \/ \E s \in DOMAIN session_state, f \in Files, r \in ResidentInputs,
          p \in PatientInputs : Start(s, f, r, p)
    \/ \E s \in DOMAIN session_state : Back(s)
    \/ \E s \in DOMAIN session_state : NewCase(s)

SpecIds == InitMulti /\ [][NextIds]_vars

----------------------------------------------------------------------------
(* Properties *)

InCase(s) == "issue_path" \in DOMAIN session_state[s]

\* the loaded document of the case of session s
DataOf(s) == cache[session_state[s]["issue_path"]]

Loaded(s) == InCase(s) /\ session_state[s]["issue_path"] \in DOMAIN cache

\* a click has been handled and its session is s
Did(op, s) == last.op = op /\ last.s = s /\ last.hit

\* the option whose button the last click pressed
ChosenOpt == OptionsOf(last.saw.node)[last.arg]

\* the ids carried by the node objects of a nodes sequence
IdsIn(ns) == {ns[k]["id"] : k \in {j \in DOMAIN ns : "id" \in DOMAIN ns[j]}}

\* C1: choose is append-only: a choose on an offered choice leaves the
\* transcript one entry longer with all earlier entries unchanged and in
\* place, and no other interaction changes an entry: the transcript changes
\* otherwise only by being emptied by restart (or discarded with the case).
C1_AppendOnly ==
    \A s \in DOMAIN session_state :
        (last.op # "none" /\ last.s = s /\ InCase(s)
            /\ "log" \in DOMAIN last.before) =>
            LET old == last.before["log"]
                new == session_state[s]["log"]
            IN  /\ last.op = "choose" =>
                       /\ Len(new) = Len(old) + 1
                       /\ SubSeq(new, 1, Len(old)) = old
                /\ last.op # "choose" =>
                       \/ new = old
                       \/ last.op = "restart" /\ new = <<>>

C1_Witness ==
    \E s \in DOMAIN session_state :
        /\ Did("choose", s)
        /\ Len(last.before["log"]) = 1
        /\ Len(session_state[s]["log"]) = 2

\* C2: after a choose, the current node id equals the chosen option's next,
\* which is also the next_node of the entry just appended, whether next
\* names a node, names no node, or is not given.
C2_NodeIdIsNext ==
    \A s \in DOMAIN session_state :
        Did("choose", s) =>
            LET log == session_state[s]["log"]
            IN  /\ session_state[s]["node_id"] = OptNext(ChosenOpt)
                /\ log[Len(log)]["next_node"] = OptNext(ChosenOpt)
                /\ session_state[s]["node_id"] = log[Len(log)]["next_node"]

\* C3: the entry appended by choose records the state before the
\* transition: the node id and node text the choice was made at, the label
\* of the chosen option and the chosen option's next.
C3_EntryIsPreTransition ==
    \A s \in DOMAIN session_state :
        Did("choose", s) =>
            LET log == session_state[s]["log"]
                e == log[Len(log)]
            IN  /\ e["node_id"] = last.before["node_id"]
                /\ e["node_id"] = last.saw.nid
                /\ e["node_text"] = last.saw.text
                /\ e["node_text"] = Get(last.saw.node, "text", "")
                /\ e["choice"] = last.saw.options[last.arg]
                /\ e["next_node"] = OptNext(ChosenOpt)

C3_Witness ==
    \E s \in DOMAIN session_state :
        /\ Did("choose", s)
        /\ last.saw.nid # OptNext(ChosenOpt)
        /\ last.saw.text # ""
        /\ session_state[s]["node_id"] # last.before["node_id"]

\* C4: restart leaves the transcript empty and the current node id equal to
\* the document's start, and leaves case_id, resident, patient_id and the
\* selected document unchanged.
C4_Restart ==
    \A s \in DOMAIN session_state :
        Did("restart", s) =>
            /\ Loaded(s)
            /\ session_state[s]["log"] = <<>>
            /\ session_state[s]["node_id"] = DataOf(s)["assistant_flow"]["start"]
            /\ \A k \in {"case_id", "resident", "patient_id", "issue_path"} :
                  session_state[s][k] = last.before[k]
            /\ DOMAIN session_state[s] = DOMAIN last.before

C4_Witness ==
    \E s \in DOMAIN session_state :
        /\ Did("restart", s)
        /\ last.before["log"] # <<>>
        /\ last.before["node_id"] # session_state[s]["node_id"]
        /\ last.before["resident"] # <<>>
        /\ last.before["case_id"] # CaseIdAt(now)

\* the page shows a Terminal state: the node has end = true, or no node of
\* the document has the current node id
Terminal(pg) ==
    pg.view = "guide" /\ (Get(pg.node, "end", FALSE) \/ DOMAIN pg.node = {})

\* C5: in a Terminal state no choice is offered, even if the node lists
\* options, and a click made on a Terminal page changes the current node id
\* or the transcript only if it is restart, back or new case.
C5_TerminalIsFinal ==
    \A s \in DOMAIN session_state :
        /\ Terminal(page[s]) => Offered(s) = {}
        /\ (last.op # "none" /\ last.s = s /\ Terminal(last.saw)) =>
              \/ last.op \in {"restart", "back", "new case"}
              \/ /\ InCase(s)
                 /\ session_state[s]["node_id"] = last.before["node_id"]
                 /\ session_state[s]["log"] = last.before["log"]

C5_Witness ==
    \E s \in DOMAIN session_state :
        /\ Terminal(page[s])
        /\ OptionsOf(page[s].node) # <<>>
        /\ last.op = "reload" /\ last.s = s /\ Terminal(last.saw)

\* C6: a choice whose next is a node id not present in the document is not
\* rejected: the entry appended has that id as next_node, the current node
\* id becomes that id, its lookup finds no node, and the guide screen is
\* rendered (blank, without options) rather than an error.
C6_DanglingEdge ==
    \A s \in DOMAIN session_state :
        (/\ Did("choose", s)
         /\ Loaded(s)
         /\ "next" \in DOMAIN ChosenOpt
         /\ ChosenOpt["next"] \notin
                IdsIn(DataOf(s)["assistant_flow"]["nodes"])) =>
            LET log == session_state[s]["log"]
            IN  /\ Len(log) = Len(last.before["log"]) + 1
                /\ log[Len(log)]["next_node"] = ChosenOpt["next"]
                /\ session_state[s]["node_id"] = ChosenOpt["next"]
                /\ page[s].view = "guide"
                /\ page[s].nid = ChosenOpt["next"]
                /\ DOMAIN page[s].node = {}
                /\ page[s].text = ""
                /\ page[s].options = <<>>

C6_Witness ==
    \E s \in DOMAIN session_state :
        /\ Did("choose", s)
        /\ Loaded(s)
        /\ "next" \in DOMAIN ChosenOpt
        /\ ChosenOpt["next"] = "missing"
        /\ "missing" \notin IdsIn(DataOf(s)["assistant_flow"]["nodes"])

\* the document has a flow with a start and at least one node carrying an id
HasUsableFlow(data) ==
    /\ "assistant_flow" \in DOMAIN data
    /\ "start" \in DOMAIN data["assistant_flow"]
    /\ data["assistant_flow"]["start"] # ""
    /\ "nodes" \in DOMAIN data["assistant_flow"]
    /\ IdsIn(data["assistant_flow"]["nodes"]) # {}

\* C7: after start on a document with a usable flow the transcript is empty
\* and the current node, the one the first page offers choices of, is the
\* document's start; the page is Terminal at once when the start node's end
\* flag is true.
C7_StartsAtStart ==
    \A s \in DOMAIN session_state :
        (Did("start", s) /\ Loaded(s) /\ HasUsableFlow(DataOf(s))) =>
            LET flow == DataOf(s)["assistant_flow"]
            IN  /\ session_state[s]["log"] = <<>>
                /\ session_state[s]["node_id"] = flow["start"]
                /\ page[s].view = "guide"
                /\ page[s].nid = flow["start"]
                /\ \A k \in DOMAIN flow["nodes"] :
                      (/\ "id" \in DOMAIN flow["nodes"][k]
                       /\ flow["nodes"][k]["id"] = flow["start"]
                       /\ \A j \in DOMAIN flow["nodes"] :
                             (j > k /\ "id" \in DOMAIN flow["nodes"][j]) =>
                                 flow["nodes"][j]["id"] # flow["start"]
                       /\ Get(flow["nodes"][k], "end", FALSE)) =>
                          Terminal(page[s]) /\ Offered(s) = {}

C7_Witness ==
    \E s \in DOMAIN session_state :
        /\ Did("start", s) /\ Loaded(s) /\ HasUsableFlow(DataOf(s))
        /\ page[s].view = "guide" /\ page[s].end
        /\ session_state[s]["node_id"] = "b"

\* the document has no assistant_flow, or one without start or without any
\* node carrying an id
Unstartable(data) ==
    \/ "assistant_flow" \notin DOMAIN data
    \/ "start" \notin DOMAIN data["assistant_flow"]
    \/ "nodes" \notin DOMAIN data["assistant_flow"]
    \/ IdsIn(data["assistant_flow"]["nodes"]) = {}

\* C8: while the document of a case is unstartable, traversal does not
\* start: the page is the raw display or the warning, no choice is offered,
\* and no interaction assigns a current node id or appends an entry.
C8_NoTraversal ==
    \A s \in DOMAIN session_state :
        (Loaded(s) /\ Unstartable(DataOf(s))) =>
            /\ page[s].view \in {"info", "warning"}
            /\ Offered(s) = {}
            /\ (last.op # "none" /\ last.s = s) =>
                  /\ session_state[s]["node_id"] \in
                        {None, Get(last.before, "node_id", None)}
                  /\ session_state[s]["log"] \in
                        {<<>>, Get(last.before, "log", <<>>)}

C8_Witness ==
    \E s \in DOMAIN session_state :
        /\ Loaded(s) /\ Unstartable(DataOf(s))
        /\ "assistant_flow" \in DOMAIN DataOf(s)
        /\ "start" \in DOMAIN DataOf(s)["assistant_flow"]
        /\ last.op = "reload" /\ last.s = s
        /\ last.saw.view = "warning"
        /\ session_state[s]["node_id"] = None

\* C9 as stated: NoFlow (the info message) is signalled only for a document
\* without the assistant_flow key, and every document that has the key but
\* lacks start or has an empty node mapping gets the warning.
C9_KeyDecides ==
    \A s \in DOMAIN session_state :
        Loaded(s) =>
            /\ page[s].view = "info" => "assistant_flow" \notin DOMAIN DataOf(s)
            /\ ("assistant_flow" \in DOMAIN DataOf(s) /\ Unstartable(DataOf(s)))
                  => page[s].view = "warning"

\* C9 amended: the info message is signalled exactly for a document whose
\* assistant_flow is absent or an empty object, and the warning exactly for
\* a document with a non-empty assistant_flow that has no non-empty start or
\* no node carrying an id.
C9_FalsyDecides ==
    \A s \in DOMAIN session_state :
        Loaded(s) =>
            LET data == DataOf(s)
                absent == "assistant_flow" \notin DOMAIN data
                empty == ~absent /\ DOMAIN data["assistant_flow"] = {}
            IN  /\ page[s].view = "info" <=> (absent \/ empty)
                /\ page[s].view = "warning" <=>
                      /\ ~absent /\ ~empty
                      /\ \/ Unstartable(data)
                         \/ data["assistant_flow"]["start"] = ""

C9_Witness ==
    \E s \in DOMAIN session_state :
        /\ Loaded(s)
        /\ "assistant_flow" \in DOMAIN DataOf(s)
        /\ DOMAIN DataOf(s)["assistant_flow"] = {}
        /\ page[s].view = "info"

\* the position of the last node object of ns carrying id, 0 if there is none
LastWith(ns, id) ==
    LET hits == {k \in DOMAIN ns : "id" \in DOMAIN ns[k] /\ ns[k]["id"] = id}
    IN  IF hits = {} THEN 0 ELSE CHOOSE k \in hits : \A j \in hits : j <= k

\* C10: the id-to-node mapping of a loaded document has exactly the ids
\* carried by node objects of its nodes sequence, a lookup returns the last
\* node object carrying the id and finds nothing (never fails) for any other
\* id, and the node a guide page shows is the one so looked up.
C10_LastWriteWins ==
    \A s \in DOMAIN session_state :
        (/\ Loaded(s)
         /\ "assistant_flow" \in DOMAIN DataOf(s)
         /\ "nodes" \in DOMAIN DataOf(s)["assistant_flow"]) =>
            LET flow == DataOf(s)["assistant_flow"]
                ns == flow["nodes"]
            IN  /\ DOMAIN NodesOf(flow) = IdsIn(ns)
                /\ \A id \in IdsIn(ns) \cup {"missing", None} :
                      Lookup(flow, id) =
                          IF LastWith(ns, id) = 0 THEN EmptyDict
                          ELSE ns[LastWith(ns, id)]
                /\ page[s].view = "guide" =>
                      page[s].node =
                          IF LastWith(ns, page[s].nid) = 0 THEN EmptyDict
                          ELSE ns[LastWith(ns, page[s].nid)]

C10_Witness ==
    \E s \in DOMAIN session_state :
        /\ Loaded(s)
        /\ page[s].view = "guide"
        /\ LET ns == DataOf(s)["assistant_flow"]["nodes"]
           IN  /\ Len(ns) = 3
               /\ "id" \notin DOMAIN ns[2]
               /\ "id" \in DOMAIN ns[1] /\ "id" \in DOMAIN ns[3]
               /\ ns[1]["id"] = page[s].nid
               /\ ns[3]["id"] = page[s].nid
               /\ ns[1] # ns[3]
               /\ page[s].node = ns[3]

\* C11: an export is a pure projection: a download or a save leaves the
\* session dict (case_id, metadata, node_id, log) as it was, and the export
\* the page shows after any click other than choose, restart or one that
\* begins or abandons the case is identical to the one it showed before, so
\* the blob a download hands over equals the one rendered next.
C11_ExportIsPure ==
    \A s \in DOMAIN session_state :
        (last.op # "none" /\ last.s = s) =>
            /\ last.op \in {"download json", "download csv", "save"} =>
                  session_state[s] = last.before
            /\ (/\ last.op \notin {"choose", "restart", "start", "back",
                                   "new case"}
                /\ HasExport(last.saw) /\ HasExport(page[s])) =>
                  /\ page[s].json_blob = last.saw.json_blob
                  /\ page[s].csv_blob = last.saw.csv_blob
            /\ (last.op = "download json" /\ HasExport(page[s])) =>
                  last.arg = page[s].json_blob
            /\ (last.op = "download csv" /\ HasExport(page[s])) =>
                  last.arg = page[s].csv_blob

C11_Witness ==
    \E s \in DOMAIN session_state :
        /\ Did("download json", s)
        /\ HasExport(page[s])
        /\ Len(session_state[s]["log"]) = 2
        /\ session_state[s]["case_id"] # CaseIdAt(now)

\* the export of session dict ss read back: case_id and metadata of the
\* case, and one row per transcript entry, in order, with its six fields
ExportMatches(pg, ss) ==
    LET log == ss["log"]
        js == pg.json_blob
        cs == pg.csv_blob
    IN  /\ Len(js) = 5
        /\ js[1] = <<"case_id", <<"string", ss["case_id"]>>>>
        /\ js[2][1] = "issue"
        /\ js[3] = <<"resident", <<"string", ss["resident"]>>>>
        /\ js[4] = <<"patient_id", <<"string", ss["patient_id"]>>>>
        /\ js[5][1] = "log"
        /\ Len(js[5][2]) = Len(log)
        /\ Len(cs) = Len(log) + 1
        /\ cs[1] = <<"timestamp_ist", "timestamp_utc", "node_id",
                     "node_text", "choice", "next_node">>
        /\ \A j \in 1..Len(log) :
              /\ Len(js[5][2][j]) = 6
              /\ Len(cs[j + 1]) = 6
              /\ \A n \in 1..6 :
                    LET k == cs[1][n]
                    IN  /\ js[5][2][j][n][1] = k
                        /\ IF k = "next_node" /\ log[j][k] = None
                           THEN /\ js[5][2][j][n][2] = <<"null">>
                                /\ cs[j + 1][n] = ""
                           ELSE /\ js[5][2][j][n][2] = <<"string", log[j][k]>>
                                /\ cs[j + 1][n] = log[j][k]

\* C12 as stated: in every case state, an empty transcript included, the
\* export exists and carries case_id, metadata and the whole transcript.
C12_ExportAlways ==
    \A s \in DOMAIN session_state :
        InCase(s) =>
            /\ HasExport(page[s])
            /\ ExportMatches(page[s], session_state[s])

\* C12 amended: on every guide screen the export exists exactly when the
\* transcript is not empty, and then it carries case_id, metadata and the
\* whole transcript, one row per entry in the order appended; the rows a
\* save sends to the sheet are these entries too, each after the case_id,
\* issue, resident and patient_id of the case.
C12_ExportWhenLogged ==
    \A s \in DOMAIN session_state :
        /\ page[s].view = "guide" =>
              /\ HasExport(page[s]) <=> session_state[s]["log"] # <<>>
              /\ HasExport(page[s]) =>
                    ExportMatches(page[s], session_state[s])
        /\ page[s].view \in {"info", "warning"} =>
              "json_blob" \notin DOMAIN page[s]
        /\ Did("save", s) =>
              LET ss == session_state[s]
              IN  /\ Len(last.arg) = Len(ss["log"])
                  /\ \A j \in 1..Len(ss["log"]) :
                        /\ SubSeq(last.arg[j], 1, 4) =
                              <<ss["case_id"], pretty(ss["issue_path"]),
                                ss["resident"], ss["patient_id"]>>
                        /\ last.arg[j][7] = ss["log"][j]["node_id"]
                        /\ last.arg[j][10] = ss["log"][j]["next_node"]

C12_Witness ==
    \E s \in DOMAIN session_state :
        /\ HasExport(page[s])
        /\ Len(session_state[s]["log"]) = 2
        /\ session_state[s]["log"][1]["next_node"] = None
        /\ session_state[s]["log"][1] # session_state[s]["log"][2]
        /\ session_state[s]["resident"] # <<>>

TextNow(data, e) ==
    IF "assistant_flow" \notin DOMAIN data
          \/ "nodes" \notin DOMAIN data["assistant_flow"]
          \/ LastWith(data["assistant_flow"]["nodes"], e["node_id"]) = 0
    THEN ""
    ELSE Get(data["assistant_flow"]["nodes"]
                 [LastWith(data["assistant_flow"]["nodes"], e["node_id"])],
             "text", "")

\* C14: the entries hold node id and node text by value: a reload, whatever
\* document it loads, leaves every entry of the transcript as it was.
C14_EntriesByValue ==
    \A s \in DOMAIN session_state :
        (Did("reload", s) /\ InCase(s)) =>
            /\ session_state[s]["log"] = last.before["log"]
            /\ \A j \in DOMAIN last.before["log"] :
                  /\ session_state[s]["log"][j]["node_id"] =
                        last.before["log"][j]["node_id"]
                  /\ session_state[s]["log"][j]["node_text"] =
                        last.before["log"][j]["node_text"]

C14_Witness ==
    \E s \in DOMAIN session_state :
        /\ Did("reload", s) /\ Loaded(s)
        /\ Len(session_state[s]["log"]) = 1
        /\ session_state[s]["log"][1]["node_text"] = "Q1"
        /\ TextNow(DataOf(s), session_state[s]["log"][1]) = "new"
        /\ last.saw.view = "guide"

\* C15: cases of different sessions are independent under any interleaving:
\* a step changes the case state (case_id, metadata, node id, transcript) of
\* a session only if it is a click made in that session.
C15_SessionsIndependent ==
    [][\A s \in DOMAIN session_state :
          session_state'[s] # session_state[s] =>
              (last'.op # "none" /\ last'.s = s)]_vars

C15_Witness ==
    /\ Did("choose", "s1")
    /\ InCase("s1") /\ InCase("s2")
    /\ Len(session_state["s1"]["log"]) = 2
    /\ Len(session_state["s2"]["log"]) = 1
    /\ session_state["s1"]["node_id"] # session_state["s2"]["node_id"]
    /\ session_state["s1"]["resident"] # session_state["s2"]["resident"]

\* C16: case ids are unique: two cases, each created by a start of its own,
\* have different case_id values.
C16_UniqueCaseIds ==
    \A s, t \in DOMAIN session_state :
        (s # t /\ InCase(s) /\ InCase(t)) =>
            session_state[s]["case_id"] # session_state[t]["case_id"]

\* C17: the transcript is a contiguous path from the start node: the first
\* entry's node_id is the start of the document, each later entry's node_id
\* is the next_node of the entry before it, and with a non-empty transcript
\* the current node id is the next_node of the last entry.
C17_ContiguousPath ==
    \A s \in DOMAIN session_state :
        (Loaded(s) /\ Usable(DataOf(s))) =>
            LET log == session_state[s]["log"]
            IN  log # <<>> =>
                    /\ log[1]["node_id"] = StartOf(DataOf(s)["assistant_flow"])
                    /\ \A j \in DOMAIN log :
                          j > 1 => log[j]["node_id"] = log[j - 1]["next_node"]
                    /\ session_state[s]["node_id"] = log[Len(log)]["next_node"]

\* the session dict a start leaves, whatever it began from
FreshCase(ss, data) ==
    \E f \in Files, r \in ResidentInputs, p \in PatientInputs, t \in 0..now :
        LET c == [issue_path |-> f, resident |-> Strip(r),
                  patient_id |-> Strip(p), case_id |-> CaseIdAt(t),
                  node_id |-> None, log |-> <<>>]
        IN  ss = IF Usable(data)
                 THEN [c EXCEPT !["node_id"] = StartOf(data["assistant_flow"])]
                 ELSE c

\* C18: abandoning a case (back, new case) discards it entirely: no case
\* state remains and the home screen is shown; a start happens on an empty
\* session only and yields a case with an empty transcript, at the start of
\* the selected document, all of whose fields come from the start itself.
C18_AbandonDiscards ==
    \A s \in DOMAIN session_state :
        /\ (Did("back", s) \/ Did("new case", s)) =>
              /\ session_state[s] = EmptyDict
              /\ page[s].view = "home"
        /\ Did("start", s) =>
              /\ last.before = EmptyDict
              /\ Loaded(s)
              /\ FreshCase(session_state[s], DataOf(s))

C18_Witness ==
    \E s \in DOMAIN session_state :
        /\ Did("new case", s)
        /\ Len(last.before["log"]) = 2
        /\ last.before["resident"] # <<>>
        /\ session_state[s] = EmptyDict

====
